---- MODULE Spec2Model ----
(***************************************************************************)
(* Booking and financial core of the hotel property-management backend:    *)
(* the availability resolver, the reservation lifecycle (create, update,   *)
(* assign room, check-in, check-out, delete) and the folio/charge ledger   *)
(* (post room charges, addon charges, settle), over the JsonTable record   *)
(* store.                                                                  *)
(*                                                                         *)
(* Calendar dates are day numbers (day d is the d-th day of the modelled   *)
(* month); money is counted in thousandths of a currency unit, so that a   *)
(* rounding to two decimals is a real operation.  Record fields the        *)
(* operations only copy (guest, occupancy, notes, rate plan, source,       *)
(* currency, createdAt/updatedAt) are left out.  An undefined optional     *)
(* field is the value NoRoom / NoTime of its type.                         *)
(***************************************************************************)
EXTENDS Integers, Sequences, FiniteSets, TLC

\* ---------------------------------------------------------------- bounds
MaxRes == 2          \* reservation ids the store hands out
MaxDay == 3          \* last calendar day of the modelled horizon
MaxDates == 2        \* longest explicit list of nights given to postRoomCharges
MaxCharges == 3      \* charges the bills may hold together
MaxPayments == 2     \* payments the store may hold, and longest payment list
MaxCalls == 2        \* billing-service calls in flight together

\* ------------------------------------------------------------- constants
MsPerDay == 1000 * 60 * 60 * 24
LateCheckoutPercent == 25

NoRoom == "undefined"
NoTime == 0
NoId == 0

Days == 1..MaxDay
ResIds == 1..MaxRes
RoomIds == {"r1", "r2"}
UnknownRoom == "r0"
RoomTypes == {"DLX", "STD"}
NoType == "undefined"
NoStatus == "undefined"
NoDay == 0
NoRate == 0 - 1
HotelCode == "H1"
Statuses == {"DRAFT", "CONFIRMED", "CHECKED_IN", "CHECKED_OUT", "CANCELLED"}
Rate == 100000       \* nightly rate used by the lifecycle inputs (100.000)
ExtraAmount == 5000
AddonAmount == 1005  \* 1.005: its 12% tax, 0.1206, is rounded
PayAmount == 10005   \* 10.005: recorded rounded

VARIABLES reservations,  \* db.reservations: id -> record (the table's cache)
          rooms,         \* db.rooms: id -> record
          nextId,        \* the next fresh reservation id (nanoid never repeats)
          clock,         \* the instant now() returns
          bills,         \* db.bills, in insertion order
          payments,      \* db.payments, in insertion order
          calls,         \* checkIn calls in flight, by reservation id
          pending        \* billing-service calls in flight, by request

vars == <<reservations, rooms, nextId, clock, bills, payments, calls, pending>>

\* A request slot with no billing-service call in flight.  A call in flight
\* holds the position b of its bill in db.bills and the bill as it read it.
CallIds == 1..MaxCalls
IdlePending == [pc |-> "idle", op |-> "none", id |-> NoId, b |-> 0, bill |-> <<>>, added |-> <<>>]

\* A reservation with no checkIn call in flight.
IdleCall == [pc |-> "idle", roomId |-> NoRoom, previousReservation |-> <<>>]

\* ------------------------------------------------------------ JsonTable
\* { ...existing, ...updates, id }: every key of updates overrides, every
\* other key keeps the cached value.
Merge(existing, updates) ==
  [k \in DOMAIN existing |-> IF k \in DOMAIN updates THEN updates[k] ELSE existing[k]]

TableUpdate(table, id, updates) ==
  [table EXCEPT ![id] = Merge(@, updates)]

TableInsert(table, id, record) ==
  [k \in DOMAIN table \cup {id} |-> IF k = id THEN record ELSE table[k]]

TableDelete(table, id) ==
  [k \in DOMAIN table \ {id} |-> table[k]]

\* JSON.parse(JSON.stringify(record)): a key whose value is undefined is
\* dropped from the copy.
IsDefined(record, k) ==
  CASE k = "roomId" -> record.roomId # NoRoom
    [] k = "checkInAt" -> record.checkInAt # NoTime
    [] k = "checkOutAt" -> record.checkOutAt # NoTime
    [] OTHER -> TRUE

JsonClone(record) ==
  [k \in {f \in DOMAIN record : IsDefined(record, f)} |-> record[k]]

\* ------------------------------------------------- reservation service
ACTIVE_RESERVATION_STATUSES == {"DRAFT", "CONFIRMED", "CHECKED_IN"}

toDate(day) == day * MsPerDay

Ceil(num, den) == (num + den - 1) \div den

\* nightsBetween: 0 stands for the thrown "Departure must be after arrival".
nightsBetween(arrival, departure) ==
  LET diff == toDate(departure) - toDate(arrival)
  IN IF diff <= 0 THEN 0 ELSE Ceil(diff, MsPerDay)

\* Variant: only an existing stay that begins inside the queried range counts.
rangesOverlapStartInside(startA, endA, startB, endB) ==
  toDate(startB) <= toDate(startA) /\ toDate(startA) < toDate(endB)

\* Variant: closed intervals, a departure day counts as occupied.
rangesOverlapClosed(startA, endA, startB, endB) ==
  toDate(startA) <= toDate(endB) /\ toDate(startB) <= toDate(endA)

rangesOverlap(startA, endA, startB, endB) ==
  toDate(startA) < toDate(endB) /\ toDate(startB) < toDate(endA)

computeBilling(nightlyRate, nights) ==
  LET base == nightlyRate * nights
  IN [totalAmount |-> base,
      balanceDue |-> base,
      charges |-> <<[description |-> <<"stay", nights, nightlyRate>>, amount |-> base]>>]

\* The reservations ensureRoomAvailable's find() can stop at.
Conflicting(table, roomId, arrivalDate, departureDate, ignoreId) ==
  {id \in DOMAIN table :
      /\ table[id].roomId # NoRoom
      /\ table[id].roomId = roomId
      /\ ~(ignoreId # NoId /\ id = ignoreId)
      /\ table[id].status \in ACTIVE_RESERVATION_STATUSES
      /\ rangesOverlap(table[id].arrivalDate, table[id].departureDate,
                       arrivalDate, departureDate)}

\* TRUE iff ensureRoomAvailable returns without throwing the 409.
ensureRoomAvailable(table, roomId, arrivalDate, departureDate, ignoreId) ==
  Conflicting(table, roomId, arrivalDate, departureDate, ignoreId) = {}

\* Variant: any existing room passes, whatever its hotel.
ensureRoomExists(rms, roomId, hotelCode) == roomId \in DOMAIN rms

ensureRoomBelongsToHotel(rms, roomId, hotelCode) ==
  roomId \in DOMAIN rms /\ rms[roomId].hotelCode = hotelCode

\* Variant: every room of the type has to be free.
ensureAvailabilityForTypeAll(table, rms, hotelCode, roomType, arrivalDate, departureDate, ignoreId) ==
  LET relevantRooms == {r \in DOMAIN rms : rms[r].hotelCode = hotelCode /\ rms[r].type = roomType}
      available == {r \in relevantRooms :
                      ensureRoomAvailable(table, r, arrivalDate, departureDate, ignoreId)}
  IN IF relevantRooms = {} THEN "NoInventory"
     ELSE IF available # relevantRooms THEN "NoAvailability"
     ELSE "ok"

\* "ok", "NoInventory" (400) or "NoAvailability" (409).
ensureAvailabilityForType(table, rms, hotelCode, roomType, arrivalDate, departureDate, ignoreId) ==
  LET relevantRooms == {r \in DOMAIN rms : rms[r].hotelCode = hotelCode /\ rms[r].type = roomType}
      available == {r \in relevantRooms :
                      ensureRoomAvailable(table, r, arrivalDate, departureDate, ignoreId)}
  IN IF relevantRooms = {} THEN "NoInventory"
     ELSE IF Cardinality(available) = 0 THEN "NoAvailability"
     ELSE "ok"

Outcome(table, rms, err) == [reservations |-> table, rooms |-> rms, err |-> err]

\* --------------------------------------------------------- billing service
\* Number(x.toFixed(2)) of the amount num/den (in thousandths): the nearest
\* hundredth, halves away from zero, again in thousandths.
roundCurrencyOf(num, den) ==
  IF num >= 0 THEN ((2 * num + 10 * den) \div (20 * den)) * 10
  ELSE 0 - (((2 * (0 - num) + 10 * den) \div (20 * den)) * 10)

roundCurrency(amount) == roundCurrencyOf(amount, 1)

RECURSIVE SumAmount(_)
SumAmount(charges) ==
  IF charges = <<>> THEN 0 ELSE Head(charges).amount + SumAmount(Tail(charges))

\* Variant: the operator's extra charges are left out.
settleReservationNoExtras(reservation, lateCheckout, extraCharges) ==
  LET lateFee == roundCurrencyOf(reservation.billing.totalAmount * LateCheckoutPercent, 100)
      charges == IF lateCheckout
                 THEN Append(reservation.billing.charges,
                             [description |-> <<"late", 0, 0>>, amount |-> lateFee])
                 ELSE reservation.billing.charges
  IN [charges |-> charges, totalAmount |-> SumAmount(charges), balanceDue |-> 0]

\* Variant: the snapshot keeps the whole total as balance due.
settleReservationUnpaid(reservation, lateCheckout, extraCharges) ==
  LET charges == (IF lateCheckout
                  THEN Append(reservation.billing.charges,
                              [description |-> <<"late", 0, 0>>,
                               amount |-> roundCurrencyOf(reservation.billing.totalAmount
                                                          * LateCheckoutPercent, 100)])
                  ELSE reservation.billing.charges) \o extraCharges
  IN [charges |-> charges, totalAmount |-> SumAmount(charges),
      balanceDue |-> SumAmount(charges)]

\* settleReservation: the checkout snapshot; no store access.
settleReservation(reservation, lateCheckout, extraCharges) ==
  LET lateFee == roundCurrencyOf(reservation.billing.totalAmount * LateCheckoutPercent, 100)
      withLate == IF lateCheckout
                  THEN Append(reservation.billing.charges,
                              [description |-> <<"late", 0, 0>>, amount |-> lateFee])
                  ELSE reservation.billing.charges
      charges == withLate \o extraCharges
  IN [charges |-> charges, totalAmount |-> SumAmount(charges), balanceDue |-> 0]

\* ----------------------------------------------------- createReservation
createReservation(table, rms, id, now, input) ==
  LET nights == nightsBetween(input.arrivalDate, input.departureDate)
      status == IF input.status # NoStatus THEN input.status
                ELSE IF input.isWalkIn THEN "CHECKED_IN" ELSE "CONFIRMED"
      room == input.roomId
      roomType == IF room # NoRoom /\ room \in DOMAIN rms THEN rms[room].type ELSE input.roomType
      record == [hotelCode |-> input.hotelCode,
                 roomType |-> roomType,
                 roomId |-> room,
                 status |-> status,
                 arrivalDate |-> input.arrivalDate,
                 departureDate |-> input.departureDate,
                 nightlyRate |-> input.nightlyRate,
                 billing |-> computeBilling(input.nightlyRate, nights),
                 checkInAt |-> IF status = "CHECKED_IN" THEN now ELSE NoTime,
                 checkOutAt |-> NoTime]
      byType == ensureAvailabilityForType(table, rms, input.hotelCode, input.roomType,
                                          input.arrivalDate, input.departureDate, NoId)
  IN IF nights = 0 THEN Outcome(table, rms, "InvalidDateRange")
     ELSE IF room # NoRoom
     THEN IF ~ensureRoomBelongsToHotel(rms, room, input.hotelCode)
          THEN Outcome(table, rms, "RoomWrongHotel")
          ELSE IF rms[room].type # input.roomType
          THEN Outcome(table, rms, "RoomMismatch")
          ELSE IF ~ensureRoomAvailable(table, room, input.arrivalDate, input.departureDate, NoId)
          THEN Outcome(table, rms, "NotAvailable")
          ELSE Outcome(TableInsert(table, id, record), rms, "ok")
     ELSE IF byType # "ok" THEN Outcome(table, rms, byType)
     ELSE Outcome(TableInsert(table, id, record), rms, "ok")

\* ----------------------------------------------------- updateReservation
\* Variant: the checked-out guard is missing.
assertEditableAlways(reservation) == TRUE

assertEditable(reservation) == reservation.status # "CHECKED_OUT"

\* Variant: the timestamp is written whenever the status is set.
updateReservationRestamp(table, rms, now, id, input) ==
  IF id \notin DOMAIN table THEN Outcome(table, rms, "NotFound")
  ELSE
  LET existing == table[id]
      arrivalDate == IF input.arrivalDate # NoDay THEN input.arrivalDate ELSE existing.arrivalDate
      departureDate == IF input.departureDate # NoDay THEN input.departureDate
                       ELSE existing.departureDate
      nights == nightsBetween(arrivalDate, departureDate)
      roomId == IF input.roomId # NoRoom THEN input.roomId ELSE existing.roomId
      typeIn == IF input.roomType # NoType THEN input.roomType ELSE existing.roomType
      roomType == IF roomId # NoRoom /\ roomId \in DOMAIN rms THEN rms[roomId].type ELSE typeIn
      nightlyRate == IF input.nightlyRate # NoRate THEN input.nightlyRate ELSE existing.nightlyRate
      base == [roomId |-> roomId,
               roomType |-> roomType,
               status |-> IF input.status # NoStatus THEN input.status ELSE existing.status,
               arrivalDate |-> arrivalDate,
               departureDate |-> departureDate,
               nightlyRate |-> nightlyRate,
               billing |-> computeBilling(nightlyRate, nights)]
      stamps == (IF input.status = "CHECKED_IN"
                 THEN {"checkInAt"} ELSE {})
                \cup (IF input.status = "CHECKED_OUT"
                      THEN {"checkOutAt"} ELSE {})
      updates == [k \in DOMAIN base \cup stamps |-> IF k \in stamps THEN now ELSE base[k]]
      byType == ensureAvailabilityForType(table, rms, existing.hotelCode, typeIn,
                                          arrivalDate, departureDate, id)
  IN IF ~assertEditable(existing) THEN Outcome(table, rms, "AlreadyCheckedOut")
     ELSE IF nights = 0 THEN Outcome(table, rms, "InvalidDateRange")
     ELSE IF roomId # NoRoom
     THEN IF ~ensureRoomBelongsToHotel(rms, roomId, existing.hotelCode)
          THEN Outcome(table, rms, "RoomWrongHotel")
          ELSE IF input.roomType # NoType /\ rms[roomId].type # input.roomType
          THEN Outcome(table, rms, "RoomMismatch")
          ELSE IF ~ensureRoomAvailable(table, roomId, arrivalDate, departureDate, id)
          THEN Outcome(table, rms, "NotAvailable")
          ELSE Outcome(TableUpdate(table, id, updates), rms, "ok")
     ELSE IF byType # "ok" THEN Outcome(table, rms, byType)
     ELSE Outcome(TableUpdate(table, id, updates), rms, "ok")

updateReservation(table, rms, now, id, input) ==
  IF id \notin DOMAIN table THEN Outcome(table, rms, "NotFound")
  ELSE
  LET existing == table[id]
      arrivalDate == IF input.arrivalDate # NoDay THEN input.arrivalDate ELSE existing.arrivalDate
      departureDate == IF input.departureDate # NoDay THEN input.departureDate
                       ELSE existing.departureDate
      nights == nightsBetween(arrivalDate, departureDate)
      roomId == IF input.roomId # NoRoom THEN input.roomId ELSE existing.roomId
      typeIn == IF input.roomType # NoType THEN input.roomType ELSE existing.roomType
      roomType == IF roomId # NoRoom /\ roomId \in DOMAIN rms THEN rms[roomId].type ELSE typeIn
      nightlyRate == IF input.nightlyRate # NoRate THEN input.nightlyRate ELSE existing.nightlyRate
      base == [roomId |-> roomId,
               roomType |-> roomType,
               status |-> IF input.status # NoStatus THEN input.status ELSE existing.status,
               arrivalDate |-> arrivalDate,
               departureDate |-> departureDate,
               nightlyRate |-> nightlyRate,
               billing |-> computeBilling(nightlyRate, nights)]
      stamps == (IF input.status = "CHECKED_IN" /\ existing.checkInAt = NoTime
                 THEN {"checkInAt"} ELSE {})
                \cup (IF input.status = "CHECKED_OUT" /\ existing.checkOutAt = NoTime
                      THEN {"checkOutAt"} ELSE {})
      updates == [k \in DOMAIN base \cup stamps |-> IF k \in stamps THEN now ELSE base[k]]
      byType == ensureAvailabilityForType(table, rms, existing.hotelCode, typeIn,
                                          arrivalDate, departureDate, id)
  IN IF ~assertEditable(existing) THEN Outcome(table, rms, "AlreadyCheckedOut")
     ELSE IF nights = 0 THEN Outcome(table, rms, "InvalidDateRange")
     ELSE IF roomId # NoRoom
     THEN IF ~ensureRoomBelongsToHotel(rms, roomId, existing.hotelCode)
          THEN Outcome(table, rms, "RoomWrongHotel")
          ELSE IF input.roomType # NoType /\ rms[roomId].type # input.roomType
          THEN Outcome(table, rms, "RoomMismatch")
          ELSE IF ~ensureRoomAvailable(table, roomId, arrivalDate, departureDate, id)
          THEN Outcome(table, rms, "NotAvailable")
          ELSE Outcome(TableUpdate(table, id, updates), rms, "ok")
     ELSE IF byType # "ok" THEN Outcome(table, rms, byType)
     ELSE Outcome(TableUpdate(table, id, updates), rms, "ok")

\* ----------------------------------------------------- deleteReservation
\* Variant: only a checked-out reservation is protected.
deleteReservationDuringStay(table, rms, id) ==
  IF id \notin DOMAIN table THEN Outcome(table, rms, "NotFound")
  ELSE IF table[id].status = "CHECKED_OUT" THEN Outcome(table, rms, "InvalidState")
  ELSE Outcome(TableDelete(table, id), rms, "ok")

deleteReservation(table, rms, id) ==
  IF id \notin DOMAIN table THEN Outcome(table, rms, "NotFound")
  ELSE IF table[id].status = "CHECKED_IN" \/ table[id].status = "CHECKED_OUT"
  THEN Outcome(table, rms, "InvalidState")
  ELSE Outcome(TableDelete(table, id), rms, "ok")

\* ------------------------------------------------------- getAvailability
\* The rooms of the hotel (of the type, when one is asked for) that pass
\* ensureRoomAvailable; the function has no throw of its own.
getAvailability(table, rms, hotelCode, roomType, arrivalDate, departureDate) ==
  LET relevantRooms == {r \in DOMAIN rms :
                          rms[r].hotelCode = hotelCode
                          /\ (roomType = NoType \/ rms[r].type = roomType)}
      availableRooms == {r \in relevantRooms :
                           ensureRoomAvailable(table, r, arrivalDate, departureDate, NoId)}
  IN [err |-> "ok",
      availableRooms |-> availableRooms,
      totalAvailable |-> Cardinality(availableRooms)]

\* --------------------------------------------------------- check-in service
assignRoom(table, rms, id, roomId) ==
  IF id \notin DOMAIN table THEN Outcome(table, rms, "NotFound")
  ELSE IF roomId \notin DOMAIN rms THEN Outcome(table, rms, "RoomNotFound")
  ELSE IF ~ensureRoomBelongsToHotel(rms, roomId, table[id].hotelCode)
  THEN Outcome(table, rms, "RoomWrongHotel")
  ELSE IF ~ensureRoomAvailable(table, roomId, table[id].arrivalDate,
                               table[id].departureDate, id)
  THEN Outcome(table, rms, "NotAvailable")
  ELSE Outcome(TableUpdate(table, id, [roomId |-> roomId, roomType |-> rms[roomId].type]),
               rms, "ok")

\* The room-status write of check-in/check-out.  JsonTable.update puts the
\* new record in the cache before it persists, so a write that throws while
\* persisting has already changed the cached room.
RoomWrite(rms, roomId, status) == TableUpdate(rms, roomId, [status |-> status])

\* roomWriteFails: the room table's persist throws.
checkIn(table, rms, now, id, roomInput, roomWriteFails) ==
  IF id \notin DOMAIN table THEN Outcome(table, rms, "NotFound")
  ELSE
  LET reservation == table[id]
      roomId == IF roomInput # NoRoom THEN roomInput ELSE reservation.roomId
      previousReservation == JsonClone(reservation)
      written == TableUpdate(table, id, [status |-> "CHECKED_IN",
                                         roomId |-> roomId,
                                         roomType |-> rms[roomId].type,
                                         checkInAt |-> now])
  IN IF reservation.status \notin {"CONFIRMED", "DRAFT"} THEN Outcome(table, rms, "InvalidState")
     ELSE IF roomId = NoRoom THEN Outcome(table, rms, "NoRoomAssigned")
     ELSE IF roomId \notin DOMAIN rms THEN Outcome(table, rms, "RoomNotFound")
     ELSE IF ~ensureRoomBelongsToHotel(rms, roomId, reservation.hotelCode)
     THEN Outcome(table, rms, "RoomWrongHotel")
     ELSE IF ~ensureRoomAvailable(table, roomId, reservation.arrivalDate,
                                  reservation.departureDate, id)
     THEN Outcome(table, rms, "NotAvailable")
     ELSE IF roomWriteFails
     THEN Outcome(TableUpdate(written, id, previousReservation),
                  RoomWrite(rms, roomId, "OCCUPIED"), "RoomWriteFailed")
     ELSE Outcome(written, RoomWrite(rms, roomId, "OCCUPIED"), "ok")

\* ---------------------------------------------------- property service
ROOM_STATUS_TRANSITIONS ==
  [AVAILABLE |-> {"OCCUPIED", "DIRTY", "OUT_OF_ORDER"},
   OCCUPIED |-> {"DIRTY"},
   DIRTY |-> {"AVAILABLE", "OUT_OF_ORDER"},
   OUT_OF_ORDER |-> {"AVAILABLE", "DIRTY"}]

RoomStatuses == DOMAIN ROOM_STATUS_TRANSITIONS

\* TRUE iff assertValidRoomStatusTransition returns without throwing.
assertValidRoomStatusTransition(current, next) ==
  current = next \/ next \in ROOM_STATUS_TRANSITIONS[current]

\* updateRoom, as far as the room's status goes: [rooms, err].  The profile's
\* hotel is HotelCode; status NoStatus is a patch without a status.
updateRoom(rms, id, status) ==
  IF id \notin DOMAIN rms \/ rms[id].hotelCode # HotelCode
  THEN [rooms |-> rms, err |-> "RoomNotFound"]
  ELSE IF status # NoStatus /\ ~assertValidRoomStatusTransition(rms[id].status, status)
  THEN [rooms |-> rms, err |-> "InvalidRoomTransition"]
  ELSE [rooms |-> TableUpdate(rms, id, [status |-> IF status # NoStatus THEN status
                                                   ELSE rms[id].status]),
        err |-> "ok"]

\* ---------------------------------------------- checkIn, await by await
\* checkIn suspends at each await, and another request may run in between.
\* Its reads and guards up to ensureRoomAvailable: the error it throws, "ok"
\* if it goes on to write.
checkInGuards(table, rms, id, roomInput) ==
  IF id \notin DOMAIN table THEN "NotFound"
  ELSE
  LET reservation == table[id]
      roomId == IF roomInput # NoRoom THEN roomInput ELSE reservation.roomId
  IN IF reservation.status \notin {"CONFIRMED", "DRAFT"} THEN "InvalidState"
     ELSE IF roomId = NoRoom THEN "NoRoomAssigned"
     ELSE IF roomId \notin DOMAIN rms THEN "RoomNotFound"
     ELSE IF ~ensureRoomBelongsToHotel(rms, roomId, reservation.hotelCode) THEN "RoomWrongHotel"
     ELSE IF ~ensureRoomAvailable(table, roomId, reservation.arrivalDate,
                                  reservation.departureDate, id)
     THEN "NotAvailable"
     ELSE "ok"

\* Variant: the write looks at the room's reservations again and leaves the
\* record alone when the room has been taken since the check.
checkInWriteRechecked(table, rms, now, id, roomId) ==
  IF ensureRoomAvailable(table, roomId, table[id].arrivalDate, table[id].departureDate, id)
  THEN TableUpdate(table, id, [status |-> "CHECKED_IN", roomId |-> roomId,
                               roomType |-> rms[roomId].type, checkInAt |-> now])
  ELSE table

\* The reservation write of checkIn, made with what the call read before.
checkInWrite(table, rms, now, id, roomId) ==
  TableUpdate(table, id, [status |-> "CHECKED_IN", roomId |-> roomId,
                          roomType |-> rms[roomId].type, checkInAt |-> now])

checkOut(table, rms, now, id, lateCheckout, extraCharges, roomWriteFails) ==
  IF id \notin DOMAIN table THEN Outcome(table, rms, "NotFound")
  ELSE
  LET reservation == table[id]
      settlement == settleReservation(reservation, lateCheckout, extraCharges)
      previousReservation == JsonClone(reservation)
      written == TableUpdate(table, id, [status |-> "CHECKED_OUT",
                                         checkOutAt |-> now,
                                         billing |-> settlement])
  IN IF reservation.status # "CHECKED_IN" THEN Outcome(table, rms, "NotCheckedIn")
     ELSE IF reservation.roomId = NoRoom THEN Outcome(table, rms, "NoRoomAssigned")
     ELSE IF reservation.roomId \notin DOMAIN rms THEN Outcome(table, rms, "RoomNotFound")
     ELSE IF roomWriteFails
     THEN Outcome(TableUpdate(written, id, previousReservation),
                  RoomWrite(rms, reservation.roomId, "DIRTY"), "RoomWriteFailed")
     ELSE Outcome(written, RoomWrite(rms, reservation.roomId, "DIRTY"), "ok")

\* ------------------------------------------------------- billing service
\* tax configuration of the property (bootstrap data)
Cgst == 6
Sgst == 6
DEFAULT_FOLIO_NAME == "Primary"
NoFolio == 0
NoName == "undefined"
NoQuantity == 0

MapSeq(seq, Op(_)) == [i \in 1..Len(seq) |-> Op(seq[i])]

RECURSIVE SumOf(_, _)
SumOf(seq, field) ==
  IF seq = <<>> THEN 0 ELSE Head(seq)[field] + SumOf(Tail(seq), field)

\* new Date(value).toISOString().split("T")[0] of an instant in ms: its day.
toISODate(value) == value \div MsPerDay

\* cursor from arrival, one UTC day at a time, while cursor < end
RECURSIVE enumerateStayNights(_, _)
enumerateStayNights(arrival, departure) ==
  IF ~(toDate(arrival) < toDate(departure)) THEN <<>>
  ELSE <<toISODate(toDate(arrival))>> \o enumerateStayNights(arrival + 1, departure)

\* Variant: only the central half of the GST is charged.
calculateTaxCgstOnly(amount) ==
  LET gstPercent == Cgst
      taxAmount == roundCurrencyOf(amount * gstPercent, 100)
  IN [taxAmount |-> taxAmount,
      totalAmount |-> roundCurrency(amount + taxAmount),
      gstPercent |-> gstPercent]

calculateTax(amount) ==
  LET gstPercent == Cgst + Sgst
      taxAmount == roundCurrencyOf(amount * gstPercent, 100)
  IN [taxAmount |-> taxAmount,
      totalAmount |-> roundCurrency(amount + taxAmount),
      gstPercent |-> gstPercent]

\* Position in db.bills of the reservation's bill, 0 if it has none (find).
BillIndexOf(bls, reservationId) ==
  LET hits == {i \in 1..Len(bls) : bls[i].reservationId = reservationId}
  IN IF hits = {} THEN 0 ELSE CHOOSE i \in hits : \A j \in hits : i <= j

\* ensureBillForReservation: the bills table afterwards; the bill is at
\* BillIndexOf of it.  A bill's id is its position in the table.
ensureBillForReservation(bls, reservationId) ==
  IF BillIndexOf(bls, reservationId) # 0 THEN bls
  ELSE Append(bls, [reservationId |-> reservationId,
                    folios |-> <<[id |-> 1, name |-> DEFAULT_FOLIO_NAME]>>,
                    charges |-> <<>>])

toLowerCase(name) ==
  CASE name = "Primary" -> "primary"
    [] name = "Company" -> "company"
    [] OTHER -> name

\* resolveFolio: [bills, folioId, err]; a folio's id is its position among
\* the bill's folios.
resolveFolio(bls, b, folioId, folioName) ==
  LET bill == bls[b]
      byId == {i \in 1..Len(bill.folios) : bill.folios[i].id = folioId}
      byName == {i \in 1..Len(bill.folios) :
                   toLowerCase(bill.folios[i].name) = toLowerCase(folioName)}
      newId == Len(bill.folios) + 1
  IN IF folioId # NoFolio
     THEN IF byId = {} THEN [bills |-> bls, folioId |-> NoFolio, err |-> "FolioNotFound"]
          ELSE [bills |-> bls, folioId |-> folioId, err |-> "ok"]
     ELSE IF folioName # NoName
     THEN IF byName # {}
          THEN [bills |-> bls,
                folioId |-> bill.folios[CHOOSE i \in byName : \A j \in byName : i <= j].id,
                err |-> "ok"]
          ELSE [bills |-> [bls EXCEPT ![b].folios = Append(@, [id |-> newId, name |-> folioName])],
                folioId |-> newId, err |-> "ok"]
     ELSE IF Len(bill.folios) = 0
     THEN [bills |-> [bls EXCEPT ![b].folios = <<[id |-> 1, name |-> DEFAULT_FOLIO_NAME]>>],
           folioId |-> 1, err |-> "ok"]
     ELSE [bills |-> bls, folioId |-> bill.folios[1].id, err |-> "ok"]

getPaymentsForReservation(pays, reservationId) ==
  SelectSeq(pays, LAMBDA p : p.reservationId = reservationId)

computeTotals(bill, pays) ==
  LET grandTotal == roundCurrency(SumOf(bill.charges, "totalAmount"))
      paymentsTotal == roundCurrency(SumOf(pays, "amount"))
  IN [subTotal |-> roundCurrency(SumOf(bill.charges, "amount")),
      taxTotal |-> roundCurrency(SumOf(bill.charges, "taxAmount")),
      grandTotal |-> grandTotal,
      paymentsTotal |-> paymentsTotal,
      balanceDue |-> roundCurrency(grandTotal - paymentsTotal)]

BillingLine(charge) == [description |-> charge.description, amount |-> charge.totalAmount]

\* syncReservationBilling: the reservations table afterwards.
syncReservationBilling(table, pays, reservationId, bill) ==
  LET totals == computeTotals(bill, getPaymentsForReservation(pays, reservationId))
  IN TableUpdate(table, reservationId,
                 [billing |-> [totalAmount |-> totals.grandTotal,
                               balanceDue |-> totals.balanceDue,
                               charges |-> MapSeq(bill.charges, BillingLine)]])

\* Variant: the charge type is compared with the wrong literal.
hasRoomChargeForDateWrongType(bill, date) ==
  \E i \in 1..Len(bill.charges) :
     bill.charges[i].nightDate = date /\ bill.charges[i].type = "ADDON"

hasRoomChargeForDate(bill, date) ==
  \E i \in 1..Len(bill.charges) :
     bill.charges[i].nightDate = date /\ bill.charges[i].type = "ROOM"

ensureDatesWithinStay(nights, stayNights) ==
  \A i \in 1..Len(nights) : \E j \in 1..Len(stayNights) : stayNights[j] = nights[i]

LedgerOutcome(table, bls, pays, err, added) ==
  [reservations |-> table, bills |-> bls, payments |-> pays, err |-> err, added |-> added]

RoomCharge(folioId, night, baseAmount) ==
  LET tax == calculateTax(baseAmount)
  IN [folioId |-> folioId, type |-> "ROOM", description |-> <<"room", night, 0>>,
      amount |-> baseAmount, taxAmount |-> tax.taxAmount, totalAmount |-> tax.totalAmount,
      nightDate |-> night]

\* The charges the loop over targetNights pushes: every target night the
\* resolved bill has no ROOM charge for.
RECURSIVE NewRoomCharges(_, _, _, _)
NewRoomCharges(resolvedBill, targetNights, folioId, baseAmount) ==
  IF targetNights = <<>> THEN <<>>
  ELSE (IF ~hasRoomChargeForDate(resolvedBill, Head(targetNights))
        THEN <<RoomCharge(folioId, Head(targetNights), baseAmount)>> ELSE <<>>)
       \o NewRoomCharges(resolvedBill, Tail(targetNights), folioId, baseAmount)

postRoomCharges(table, bls, pays, id, input) ==
  IF id \notin DOMAIN table THEN LedgerOutcome(table, bls, pays, "NotFound", <<>>)
  ELSE
  LET reservation == table[id]
      withBill == ensureBillForReservation(bls, id)
      b == BillIndexOf(withBill, id)
      stayNights == enumerateStayNights(reservation.arrivalDate, reservation.departureDate)
      targetNights == IF Len(input.dates) # 0 THEN MapSeq(input.dates, toISODate) ELSE stayNights
      folio == resolveFolio(withBill, b, input.folioId, input.folioName)
      baseAmount == IF input.nightlyRate # NoRate THEN input.nightlyRate
                    ELSE reservation.nightlyRate
      newCharges == NewRoomCharges(folio.bills[b], targetNights, folio.folioId, baseAmount)
      updated == [folio.bills EXCEPT ![b].charges = @ \o newCharges]
  IN IF Len(stayNights) = 0 THEN LedgerOutcome(table, withBill, pays, "NotOvernightStay", <<>>)
     ELSE IF ~ensureDatesWithinStay(targetNights, stayNights)
     THEN LedgerOutcome(table, withBill, pays, "NightOutsideStay", <<>>)
     ELSE IF folio.err # "ok" THEN LedgerOutcome(table, withBill, pays, folio.err, <<>>)
     ELSE IF Len(newCharges) = 0 THEN LedgerOutcome(table, folio.bills, pays, "ok", <<>>)
     ELSE LedgerOutcome(syncReservationBilling(table, pays, id, updated[b]),
                        updated, pays, "ok", newCharges)

addAddonCharge(table, bls, pays, id, input) ==
  IF input.amount <= 0 THEN LedgerOutcome(table, bls, pays, "InvalidAmount", <<>>)
  ELSE IF id \notin DOMAIN table THEN LedgerOutcome(table, bls, pays, "NotFound", <<>>)
  ELSE
  LET withBill == ensureBillForReservation(bls, id)
      b == BillIndexOf(withBill, id)
      folio == resolveFolio(withBill, b, input.folioId, input.folioName)
      quantity == IF input.quantity # NoQuantity /\ input.quantity > 0 THEN input.quantity ELSE 1
      baseAmount == input.amount * quantity
      tax == calculateTax(baseAmount)
      charge == [folioId |-> folio.folioId, type |-> "ADDON", description |-> <<"addon", 0, 0>>,
                 amount |-> baseAmount, taxAmount |-> tax.taxAmount,
                 totalAmount |-> tax.totalAmount, nightDate |-> NoDay]
      updated == [folio.bills EXCEPT ![b].charges = Append(@, charge)]
  IN IF folio.err # "ok" THEN LedgerOutcome(table, withBill, pays, folio.err, <<>>)
     ELSE LedgerOutcome(syncReservationBilling(table, pays, id, updated[b]),
                        updated, pays, "ok", <<charge>>)

\* getBillSummary: resolves the reservation, ensures its bill, and returns
\* the bill with its payments and totals.
getBillSummary(table, bls, pays, id) ==
  IF id \notin DOMAIN table THEN LedgerOutcome(table, bls, pays, "NotFound", <<>>)
  ELSE LedgerOutcome(table, ensureBillForReservation(bls, id), pays, "ok", <<>>)

\* generateInvoice: the same two steps, then reads of payments, property
\* profile, tax configuration and guest.
generateInvoice(table, bls, pays, id) ==
  IF id \notin DOMAIN table THEN LedgerOutcome(table, bls, pays, "NotFound", <<>>)
  ELSE LedgerOutcome(table, ensureBillForReservation(bls, id), pays, "ok", <<>>)

\* The loop of settleBill over input.payments from position i on:
\* [bills, payments, err].
RECURSIVE SettleLoop(_, _, _, _, _, _)
SettleLoop(bls, pays, id, b, list, i) ==
  IF i > Len(list) THEN [bills |-> bls, payments |-> pays, err |-> "ok"]
  ELSE IF list[i].amount <= 0 THEN [bills |-> bls, payments |-> pays, err |-> "InvalidAmount"]
  ELSE LET folio == resolveFolio(bls, b, list[i].folioId, list[i].folioName)
       IN IF folio.err # "ok" THEN [bills |-> bls, payments |-> pays, err |-> folio.err]
          ELSE SettleLoop(folio.bills,
                          Append(pays, [reservationId |-> id, folioId |-> folio.folioId,
                                        amount |-> roundCurrency(list[i].amount)]),
                          id, b, list, i + 1)

settleBill(table, bls, pays, id, list) ==
  IF Len(list) = 0 THEN LedgerOutcome(table, bls, pays, "EmptyPaymentList", <<>>)
  ELSE IF id \notin DOMAIN table THEN LedgerOutcome(table, bls, pays, "NotFound", <<>>)
  ELSE
  LET withBill == ensureBillForReservation(bls, id)
      b == BillIndexOf(withBill, id)
      loop == SettleLoop(withBill, pays, id, b, list, 1)
  IN IF loop.err # "ok" THEN LedgerOutcome(table, loop.bills, loop.payments, loop.err, <<>>)
     ELSE LedgerOutcome(syncReservationBilling(table, loop.payments, id, loop.bills[b]),
                        loop.bills, loop.payments, "ok",
                        SubSeq(loop.payments, Len(pays) + 1, Len(loop.payments)))

\* ------------------------------------------ billing calls, await by await
\* A billing-service call suspends at each await.  What it holds between
\* awaits is the bill as it read it (a clone), not the table's record.

\* billsTable.insert of ensureBillForReservation, made after its find() saw
\* no bill for the reservation.
billInsert(bls, reservationId) ==
  Append(bls, [reservationId |-> reservationId,
               folios |-> <<[id |-> 1, name |-> DEFAULT_FOLIO_NAME]>>,
               charges |-> <<>>])

\* The charges a call adds to the bill it read: the addon charge, or a ROOM
\* charge for each night of the stay the bill it read has none for.
pendingCharges(table, call) ==
  IF call.op = "addon"
  THEN LET tax == calculateTax(AddonAmount)
       IN <<[folioId |-> 1, type |-> "ADDON", description |-> <<"addon", 0, 0>>,
             amount |-> AddonAmount, taxAmount |-> tax.taxAmount,
             totalAmount |-> tax.totalAmount, nightDate |-> NoDay]>>
  ELSE NewRoomCharges(call.bill[1],
                      enumerateStayNights(table[call.id].arrivalDate,
                                          table[call.id].departureDate),
                      1, table[call.id].nightlyRate)

\* billsTable.update(resolvedBill.id, { charges: [...resolvedBill.charges,
\* ...newCharges] }): the charges of the bill the call read, then the new.
billWriteCharges(bls, b, resolvedBill, newCharges) ==
  [bls EXCEPT ![b] = Merge(@, [charges |-> resolvedBill.charges \o newCharges])]

\* ------------------------------------------------------------------ inputs
NoPatch == [roomId |-> NoRoom, roomType |-> NoType, status |-> NoStatus,
            arrivalDate |-> NoDay, departureDate |-> NoDay, nightlyRate |-> NoRate]

\* arrival/departure pairs, the empty stay (arrival = departure) among them
DateRangeInputs == {ad \in Days \X Days : ad[1] <= ad[2]}

CreateInputs ==
  {[hotelCode |-> HotelCode, roomId |-> r, roomType |-> t, status |-> sw[1],
    isWalkIn |-> sw[2], arrivalDate |-> ad[1], departureDate |-> ad[2], nightlyRate |-> Rate] :
     r \in RoomIds \cup {NoRoom}, t \in RoomTypes,
     sw \in {<<NoStatus, FALSE>>, <<NoStatus, TRUE>>, <<"DRAFT", FALSE>>},
     ad \in DateRangeInputs}

UpdateInputs ==
  {NoPatch}
  \cup {[NoPatch EXCEPT !.roomId = r] : r \in RoomIds}
  \cup {[NoPatch EXCEPT !.roomType = t] : t \in RoomTypes}
  \cup {[NoPatch EXCEPT !.status = st] : st \in Statuses}
  \cup {[NoPatch EXCEPT !.arrivalDate = a, !.departureDate = d] :
          a \in Days \cup {NoDay}, d \in Days \cup {NoDay}}

ExtraChargeInputs ==
  {<<>>, <<[description |-> <<"extra", 0, 0>>, amount |-> ExtraAmount]>>}

\* ----------------------------------------------------------------- actions
Init ==
  /\ reservations = <<>>
  /\ rooms = [r \in RoomIds |->
                [hotelCode |-> IF r = "r1" THEN HotelCode ELSE "H2",
                 type |-> IF r = "r1" THEN "DLX" ELSE "STD",
                 status |-> "AVAILABLE"]]
  /\ nextId = 1
  /\ clock = 1
  /\ calls = [id \in ResIds |-> IdleCall]
  /\ pending = [c \in CallIds |-> IdlePending]
  /\ bills = <<>>
  /\ payments = <<>>

Apply(out) ==
  /\ reservations' = out.reservations
  /\ rooms' = out.rooms

CreateReservation ==
  /\ nextId <= MaxRes
  /\ \E input \in CreateInputs :
       LET out == createReservation(reservations, rooms, nextId, clock, input)
       IN /\ Apply(out)
          /\ nextId' = IF out.err = "ok" THEN nextId + 1 ELSE nextId
  /\ UNCHANGED <<clock, pending, bills, payments, calls>>

UpdateReservation ==
  /\ \E id \in ResIds, input \in UpdateInputs :
       Apply(updateReservation(reservations, rooms, clock, id, input))
  /\ UNCHANGED <<nextId, clock, pending, bills, payments, calls>>

DeleteReservation ==
  /\ \E id \in ResIds :
       Apply(deleteReservation(reservations, rooms, id))
  /\ UNCHANGED <<nextId, clock, pending, bills, payments, calls>>

AssignRoom ==
  /\ \E id \in ResIds, roomId \in RoomIds \cup {UnknownRoom} :
       Apply(assignRoom(reservations, rooms, id, roomId))
  /\ UNCHANGED <<nextId, clock, pending, bills, payments, calls>>

CheckIn ==
  /\ \E id \in ResIds, roomInput \in RoomIds \cup {UnknownRoom, NoRoom}, fails \in BOOLEAN :
       Apply(checkIn(reservations, rooms, clock, id, roomInput, fails))
  /\ UNCHANGED <<nextId, clock, pending, bills, payments, calls>>

CheckOut ==
  /\ \E id \in ResIds, late \in BOOLEAN, extra \in ExtraChargeInputs, fails \in BOOLEAN :
       Apply(checkOut(reservations, rooms, clock, id, late, extra, fails))
  /\ UNCHANGED <<nextId, clock, pending, bills, payments, calls>>

\* A query: it answers from the stores and writes nothing.
GetAvailability ==
  /\ \E roomType \in RoomTypes \cup {NoType}, ad \in DateRangeInputs :
       getAvailability(reservations, rooms, HotelCode, roomType, ad[1], ad[2]).err = "ok"
  /\ UNCHANGED vars

Next ==
  \/ CreateReservation
  \/ GetAvailability
  \/ UpdateReservation
  \/ DeleteReservation
  \/ AssignRoom
  \/ CheckIn
  \/ CheckOut

Spec == Init /\ [][Next]_vars

\* --------------------------------------------------------- ledger inputs
\* Instants the caller names nights by: midnights, and noon of day 1.
DateInputs == {toDate(d) : d \in Days} \cup {toDate(1) + MsPerDay \div 2}

SeqsUpTo(S, n) == UNION {[1..k -> S] : k \in 0..n}

FolioInputs == {<<NoFolio, NoName>>, <<NoFolio, "Company">>, <<NoFolio, "primary">>, <<2, NoName>>}

\* Explicit night lists on the default folio, and every folio choice for
\* the whole stay.
PostInputs ==
  {[dates |-> ds, folioId |-> NoFolio, folioName |-> NoName, nightlyRate |-> NoRate] :
     ds \in SeqsUpTo(DateInputs, MaxDates)}
  \cup {[dates |-> <<>>, folioId |-> f[1], folioName |-> f[2], nightlyRate |-> NoRate] :
          f \in FolioInputs}

AddonInputs ==
  {[amount |-> a, quantity |-> q, folioId |-> NoFolio, folioName |-> NoName] :
     a \in {0, AddonAmount}, q \in {NoQuantity, 2}}

PaymentInputs ==
  {[amount |-> a, folioId |-> NoFolio, folioName |-> NoName] : a \in {0, PayAmount}}

SettleInputs == SeqsUpTo(PaymentInputs, MaxPayments)

\* Bookings by room type, the stays the ledger is exercised on.
LedgerCreateInputs ==
  {[hotelCode |-> HotelCode, roomId |-> NoRoom, roomType |-> "DLX", status |-> NoStatus,
    isWalkIn |-> FALSE, arrivalDate |-> 1, departureDate |-> 3, nightlyRate |-> Rate]}

\* --------------------------------------------------------- ledger actions
RECURSIVE TotalCharges(_)
TotalCharges(bls) ==
  IF bls = <<>> THEN 0 ELSE Len(Head(bls).charges) + TotalCharges(Tail(bls))

WithinLedgerBounds(out) ==
  /\ TotalCharges(out.bills) <= MaxCharges
  /\ Len(out.payments) <= MaxPayments

ApplyLedger(out) ==
  /\ WithinLedgerBounds(out)
  /\ reservations' = out.reservations
  /\ bills' = out.bills
  /\ payments' = out.payments

LedgerCreate ==
  /\ nextId <= MaxRes
  /\ \E input \in LedgerCreateInputs :
       LET out == createReservation(reservations, rooms, nextId, clock, input)
       IN /\ Apply(out)
          /\ nextId' = IF out.err = "ok" THEN nextId + 1 ELSE nextId
  /\ UNCHANGED <<clock, pending, bills, payments, calls>>

PostRoomCharges ==
  /\ \E id \in ResIds, input \in PostInputs :
       ApplyLedger(postRoomCharges(reservations, bills, payments, id, input))
  /\ UNCHANGED <<rooms, nextId, clock, pending, calls>>

AddAddonCharge ==
  /\ \E id \in ResIds, input \in AddonInputs :
       ApplyLedger(addAddonCharge(reservations, bills, payments, id, input))
  /\ UNCHANGED <<rooms, nextId, clock, pending, calls>>

SettleBill ==
  /\ \E id \in ResIds, list \in SettleInputs :
       ApplyLedger(settleBill(reservations, bills, payments, id, list))
  /\ UNCHANGED <<rooms, nextId, clock, pending, calls>>

GetBillSummary ==
  /\ \E id \in ResIds :
       ApplyLedger(getBillSummary(reservations, bills, payments, id))
  /\ UNCHANGED <<rooms, nextId, clock, pending, calls>>

GenerateInvoice ==
  /\ \E id \in ResIds :
       ApplyLedger(generateInvoice(reservations, bills, payments, id))
  /\ UNCHANGED <<rooms, nextId, clock, pending, calls>>

LedgerNext ==
  \/ LedgerCreate
  \/ GetBillSummary
  \/ GenerateInvoice
  \/ PostRoomCharges
  \/ AddAddonCharge
  \/ SettleBill

LedgerSpec == Init /\ [][LedgerNext]_vars

\* ------------------------------- ledger calls interleaved with edits
\* The reservation edits made between ledger calls: an empty patch and a
\* room choice.
SyncUpdateInputs == {NoPatch, [NoPatch EXCEPT !.roomId = "r1"]}

SyncUpdate ==
  /\ \E id \in ResIds, input \in SyncUpdateInputs :
       Apply(updateReservation(reservations, rooms, clock, id, input))
  /\ UNCHANGED <<nextId, clock, pending, bills, payments, calls>>

SyncAssign ==
  /\ \E id \in ResIds :
       Apply(assignRoom(reservations, rooms, id, "r1"))
  /\ UNCHANGED <<nextId, clock, pending, bills, payments, calls>>

\* The ledger calls in between are well-formed: nights of the stay, a
\* positive addon amount, one positive payment.
SyncPostInputs ==
  {[dates |-> ds, folioId |-> NoFolio, folioName |-> NoName, nightlyRate |-> NoRate] :
     ds \in {<<>>, <<toDate(1)>>}}

SyncPost ==
  /\ \E id \in ResIds, input \in SyncPostInputs :
       ApplyLedger(postRoomCharges(reservations, bills, payments, id, input))
  /\ UNCHANGED <<rooms, nextId, clock, pending, calls>>

SyncAddon ==
  /\ \E id \in ResIds :
       ApplyLedger(addAddonCharge(reservations, bills, payments, id,
                                  [amount |-> AddonAmount, quantity |-> NoQuantity,
                                   folioId |-> NoFolio, folioName |-> NoName]))
  /\ UNCHANGED <<rooms, nextId, clock, pending, calls>>

SyncSettle ==
  /\ \E id \in ResIds :
       ApplyLedger(settleBill(reservations, bills, payments, id,
                              <<[amount |-> PayAmount, folioId |-> NoFolio,
                                 folioName |-> NoName]>>))
  /\ UNCHANGED <<rooms, nextId, clock, pending, calls>>

SyncNext ==
  \/ LedgerCreate
  \/ SyncPost
  \/ SyncAddon
  \/ SyncSettle
  \/ SyncUpdate
  \/ SyncAssign

SyncSpec == Init /\ [][SyncNext]_vars

\* ------------------------------------------ stays at rates with decimals
\* Nightly rates of 100.000, 100.010 and 1.005: a quarter of the second and
\* third is not a whole number of hundredths.
SettlementRates == {Rate, Rate + 10, AddonAmount}

SettlementCreateInputs ==
  {[hotelCode |-> HotelCode, roomId |-> "r1", roomType |-> "DLX", status |-> NoStatus,
    isWalkIn |-> w, arrivalDate |-> ad[1], departureDate |-> ad[2], nightlyRate |-> rate] :
     w \in BOOLEAN, ad \in DateRangeInputs, rate \in SettlementRates}

SettlementBook ==
  /\ nextId <= MaxRes
  /\ \E input \in SettlementCreateInputs :
       LET out == createReservation(reservations, rooms, nextId, clock, input)
       IN /\ Apply(out)
          /\ nextId' = IF out.err = "ok" THEN nextId + 1 ELSE nextId
  /\ UNCHANGED <<clock, pending, bills, payments, calls>>

SettlementCheckIn ==
  /\ \E id \in ResIds :
       Apply(checkIn(reservations, rooms, clock, id, NoRoom, FALSE))
  /\ UNCHANGED <<nextId, clock, pending, bills, payments, calls>>

SettlementNext ==
  \/ SettlementBook
  \/ SettlementCheckIn
  \/ CheckOut

SettlementSpec == Init /\ [][SettlementNext]_vars

\* ------------------------------------------------ concurrent check-ins
\* Bookings by room type for overlapping stays, and checkIn calls that run
\* one await at a time, each for its own reservation.
RaceCreateInputs ==
  {[hotelCode |-> HotelCode, roomId |-> NoRoom, roomType |-> "DLX", status |-> NoStatus,
    isWalkIn |-> FALSE, arrivalDate |-> ad[1], departureDate |-> ad[2], nightlyRate |-> Rate] :
     ad \in DateRangeInputs}

RaceBook ==
  /\ nextId <= MaxRes
  /\ \E input \in RaceCreateInputs :
       LET out == createReservation(reservations, rooms, nextId, clock, input)
       IN /\ Apply(out)
          /\ nextId' = IF out.err = "ok" THEN nextId + 1 ELSE nextId
  /\ UNCHANGED <<clock, pending, bills, payments, calls>>

\* The call reads the reservation and the room and passes its guards.
CheckInBegin ==
  /\ \E id \in ResIds, roomInput \in RoomIds \cup {NoRoom} :
       /\ calls[id].pc = "idle"
       /\ checkInGuards(reservations, rooms, id, roomInput) = "ok"
       /\ calls' = [calls EXCEPT ![id] =
                      [pc |-> "checked",
                       roomId |-> IF roomInput # NoRoom THEN roomInput
                                  ELSE reservations[id].roomId,
                       previousReservation |-> <<JsonClone(reservations[id])>>]]
  /\ UNCHANGED <<reservations, rooms, nextId, clock, pending, bills, payments>>

\* await reservationsTable.update(...)
CheckInWriteReservation ==
  /\ \E id \in ResIds :
       /\ calls[id].pc = "checked"
       /\ reservations' = checkInWrite(reservations, rooms, clock, id, calls[id].roomId)
       /\ calls' = [calls EXCEPT ![id].pc = "written"]
  /\ UNCHANGED <<rooms, nextId, clock, pending, bills, payments>>

\* await roomsTable.update(...), and the compensating write when it throws.
CheckInWriteRoom ==
  /\ \E id \in ResIds, roomWriteFails \in BOOLEAN :
       /\ calls[id].pc = "written"
       /\ rooms' = RoomWrite(rooms, calls[id].roomId, "OCCUPIED")
       /\ IF roomWriteFails
          THEN /\ reservations' = TableUpdate(reservations, id,
                                              calls[id].previousReservation[1])
               /\ calls' = [calls EXCEPT ![id] = IdleCall]
          ELSE /\ UNCHANGED reservations
               /\ calls' = [calls EXCEPT ![id].pc = "done"]
  /\ UNCHANGED <<nextId, clock, pending, bills, payments>>

RaceNext ==
  \/ RaceBook
  \/ CheckInBegin
  \/ CheckInWriteReservation
  \/ CheckInWriteRoom

RaceSpec == Init /\ [][RaceNext]_vars

\* ------------------------------------------- room status and the lifecycle
UpdateRoom ==
  /\ \E id \in RoomIds \cup {UnknownRoom}, status \in RoomStatuses \cup {NoStatus} :
       rooms' = updateRoom(rooms, id, status).rooms
  /\ UNCHANGED <<reservations, nextId, clock, pending, bills, payments, calls>>

RoomNext ==
  \/ CreateReservation
  \/ CheckIn
  \/ CheckOut
  \/ UpdateRoom

RoomSpec == Init /\ [][RoomNext]_vars

\* ------------------------------------------- concurrent billing calls
\* addAddonCharge, postRoomCharges (for the whole stay) and getBillSummary
\* calls on the default folio, each running one await at a time.
\* resolveReservation and the find() of ensureBillForReservation: the call
\* holds the bill it found, or goes on to insert one.
LedgerBegin ==
  /\ \E c \in CallIds, id \in DOMAIN reservations, op \in {"addon", "post", "summary"} :
       LET b == BillIndexOf(bills, id)
       IN /\ pending[c].pc = "idle"
          /\ pending' = [pending EXCEPT ![c] =
                [pc |-> IF b = 0 THEN "creating" ELSE IF op = "summary" THEN "done" ELSE "read",
                 op |-> op, id |-> id, b |-> b,
                 bill |-> IF b = 0 THEN <<>> ELSE <<bills[b]>>,
                 added |-> <<>>]]
  /\ UNCHANGED <<reservations, rooms, nextId, clock, bills, payments, calls>>

\* await billsTable.insert(record)
LedgerInsertBill ==
  /\ \E c \in CallIds :
       /\ pending[c].pc = "creating"
       /\ bills' = billInsert(bills, pending[c].id)
       /\ pending' = [pending EXCEPT ![c].pc = IF pending[c].op = "summary" THEN "done"
                                               ELSE "read",
                                     ![c].b = Len(bills'),
                                     ![c].bill = <<bills'[Len(bills')]>>]
  /\ UNCHANGED <<reservations, rooms, nextId, clock, payments, calls>>

\* await billsTable.update(resolvedBill.id, { charges: ... }); a
\* postRoomCharges with no night left to charge returns instead.
LedgerWriteCharges ==
  /\ \E c \in CallIds :
       LET call == pending[c]
           b == call.b
           newCharges == pendingCharges(reservations, call)
       IN /\ call.pc = "read"
          /\ IF Len(newCharges) = 0
             THEN /\ UNCHANGED bills
                  /\ pending' = [pending EXCEPT ![c].pc = "done"]
             ELSE /\ bills' = billWriteCharges(bills, b, call.bill[1], newCharges)
                  /\ pending' = [pending EXCEPT ![c].pc = "written",
                                                ![c].bill = <<bills'[b]>>,
                                                ![c].added = newCharges]
  /\ UNCHANGED <<reservations, rooms, nextId, clock, payments, calls>>

\* syncReservationBilling(reservation, updated)
LedgerSync ==
  /\ \E c \in CallIds :
       /\ pending[c].pc = "written"
       /\ reservations' = syncReservationBilling(reservations, payments, pending[c].id,
                                                 pending[c].bill[1])
       /\ pending' = [pending EXCEPT ![c].pc = "done"]
  /\ UNCHANGED <<rooms, nextId, clock, bills, payments, calls>>

ConcurrentLedgerNext ==
  \/ LedgerCreate
  \/ LedgerBegin
  \/ LedgerInsertBill
  \/ LedgerWriteCharges
  \/ LedgerSync

ConcurrentLedgerSpec == Init /\ [][ConcurrentLedgerNext]_vars

\* ------------------------------------- bookings ahead, then the stays
\* Plain bookings (no walk-in, no status given), room assignment, check-in
\* and check-out, one call at a time, with no failing write.
StayCreateInputs == {input \in CreateInputs : input.status = NoStatus /\ ~input.isWalkIn}

StayBook ==
  /\ nextId <= MaxRes
  /\ \E input \in StayCreateInputs :
       LET out == createReservation(reservations, rooms, nextId, clock, input)
       IN /\ Apply(out)
          /\ nextId' = IF out.err = "ok" THEN nextId + 1 ELSE nextId
  /\ UNCHANGED <<clock, pending, bills, payments, calls>>

\* Every store write succeeds.
StayCheckIn ==
  /\ \E id \in ResIds, roomInput \in RoomIds \cup {UnknownRoom, NoRoom} :
       Apply(checkIn(reservations, rooms, clock, id, roomInput, FALSE))
  /\ UNCHANGED <<nextId, clock, pending, bills, payments, calls>>

StayCheckOut ==
  /\ \E id \in ResIds, late \in BOOLEAN, extra \in ExtraChargeInputs :
       Apply(checkOut(reservations, rooms, clock, id, late, extra, FALSE))
  /\ UNCHANGED <<nextId, clock, pending, bills, payments, calls>>

StayNext ==
  \/ StayBook
  \/ AssignRoom
  \/ StayCheckIn
  \/ StayCheckOut

StaySpec == Init /\ [][StayNext]_vars

\* --------------------------------------------------------- bookings only
BookSpec == Init /\ [][CreateReservation]_vars

\* --------------------------------------- a check-out during a check-in
\* checkIn calls running one await at a time, and checkOut calls that run
\* between those awaits.
RollbackNext ==
  \/ RaceBook
  \/ CheckInBegin
  \/ CheckInWriteReservation
  \/ CheckInWriteRoom
  \/ CheckOut

RollbackSpec == Init /\ [][RollbackNext]_vars

\* ------------------------------------------ ledger calls after check-out
\* Stays booked ahead in room r1 from day 1 at the plain rate, checked in and
\* out, with the well-formed ledger calls made on them at any time.
DepartureCreateInputs ==
  {input \in SettlementCreateInputs :
     input.nightlyRate = Rate /\ ~input.isWalkIn /\ input.arrivalDate = 1}

DepartureBook ==
  /\ nextId <= MaxRes
  /\ \E input \in DepartureCreateInputs :
       LET out == createReservation(reservations, rooms, nextId, clock, input)
       IN /\ Apply(out)
          /\ nextId' = IF out.err = "ok" THEN nextId + 1 ELSE nextId
  /\ UNCHANGED <<clock, pending, bills, payments, calls>>

DepartureNext ==
  \/ DepartureBook
  \/ SettlementCheckIn
  \/ CheckOut
  \/ SyncPost
  \/ SyncAddon
  \/ SyncSettle

DepartureSpec == Init /\ [][DepartureNext]_vars

\* ------------------------------------------- a hotel with two rooms of a type
\* Both rooms are DLX rooms of the hotel; it has no STD room.
TypeInit ==
  /\ reservations = <<>>
  /\ rooms = [r \in RoomIds |-> [hotelCode |-> HotelCode, type |-> "DLX", status |-> "AVAILABLE"]]
  /\ nextId = 1
  /\ clock = 1
  /\ calls = [id \in ResIds |-> IdleCall]
  /\ pending = [c \in CallIds |-> IdlePending]
  /\ bills = <<>>
  /\ payments = <<>>

TypeSpec == TypeInit /\ [][Next]_vars

\* ------------------------------------------------- a three-night stay
\* Room r1 (DLX) booked at 7500.000 a night from day 1 to day 4, checked in,
\* charged night by night or for the whole stay, and paid in one or more
\* payments.
ScenarioRate == 7500 * 1000
ScenarioNightTotal == 8400 * 1000
ScenarioGrandTotal == 25200 * 1000

ScenarioInput ==
  [hotelCode |-> HotelCode, roomId |-> "r1", roomType |-> "DLX", status |-> NoStatus,
   isWalkIn |-> FALSE, arrivalDate |-> 1, departureDate |-> 4, nightlyRate |-> ScenarioRate]

ScenarioCreateInputs ==
  {[ScenarioInput EXCEPT !.roomId = r, !.arrivalDate = a, !.departureDate = a + n] :
     r \in {"r1", NoRoom}, a \in {1}, n \in 2..3}

ScenarioPostInputs ==
  {[dates |-> ds, folioId |-> NoFolio, folioName |-> NoName, nightlyRate |-> NoRate] :
     ds \in {<<>>} \cup {<<toDate(d)>> : d \in 1..3}}

ScenarioSettleInputs ==
  {<<[amount |-> a, folioId |-> NoFolio, folioName |-> NoName]>> :
     a \in {ScenarioNightTotal, ScenarioGrandTotal}}

ScenarioBook ==
  /\ nextId <= MaxRes
  /\ \E input \in ScenarioCreateInputs :
       LET out == createReservation(reservations, rooms, nextId, clock, input)
       IN /\ Apply(out)
          /\ nextId' = IF out.err = "ok" THEN nextId + 1 ELSE nextId
  /\ UNCHANGED <<clock, pending, bills, payments, calls>>

ScenarioCheckIn ==
  /\ \E id \in ResIds, roomInput \in {"r1", NoRoom} :
       Apply(checkIn(reservations, rooms, clock, id, roomInput, FALSE))
  /\ UNCHANGED <<nextId, clock, pending, bills, payments, calls>>

ScenarioApplyLedger(out) ==
  /\ Len(out.payments) <= MaxPayments
  /\ reservations' = out.reservations
  /\ bills' = out.bills
  /\ payments' = out.payments

ScenarioPost ==
  /\ \E id \in ResIds, input \in ScenarioPostInputs :
       ScenarioApplyLedger(postRoomCharges(reservations, bills, payments, id, input))
  /\ UNCHANGED <<rooms, nextId, clock, pending, calls>>

ScenarioSettle ==
  /\ \E id \in ResIds, list \in ScenarioSettleInputs :
       ScenarioApplyLedger(settleBill(reservations, bills, payments, id, list))
  /\ UNCHANGED <<rooms, nextId, clock, pending, calls>>

ScenarioNext ==
  \/ ScenarioBook
  \/ ScenarioCheckIn
  \/ ScenarioPost
  \/ ScenarioSettle

ScenarioSpec == Init /\ [][ScenarioNext]_vars

\* ====================================================== checked properties
Active(r) == r.status \in {"DRAFT", "CONFIRMED", "CHECKED_IN"}

\* Every patch updateReservation can be given over the modelled values.
AllUpdateInputs ==
  [roomId : RoomIds \cup {NoRoom}, roomType : RoomTypes \cup {NoType},
   status : Statuses \cup {NoStatus}, arrivalDate : Days \cup {NoDay},
   departureDate : Days \cup {NoDay}, nightlyRate : {NoRate}]

RoomInputs == RoomIds \cup {UnknownRoom, NoRoom}

\* C1 (no double-booking): any two distinct active reservations with the
\* same room have non-overlapping half-open [arrival, departure) stays.
C1_NoDoubleBooking ==
  \A i \in DOMAIN reservations, j \in DOMAIN reservations :
     (/\ i # j
      /\ Active(reservations[i]) /\ Active(reservations[j])
      /\ reservations[i].roomId # NoRoom
      /\ reservations[i].roomId = reservations[j].roomId)
     => ~(/\ reservations[i].arrivalDate < reservations[j].departureDate
          /\ reservations[j].arrivalDate < reservations[i].departureDate)

\* Two active reservations share a room back to back.
C1_Witness ==
  \E i \in DOMAIN reservations, j \in DOMAIN reservations :
     /\ i # j
     /\ Active(reservations[i]) /\ Active(reservations[j])
     /\ reservations[i].roomId = "r1" /\ reservations[j].roomId = "r1"
     /\ reservations[i].departureDate = reservations[j].arrivalDate

\* C10 (availability check): for every room, range and excluded id the check
\* reports a conflict iff a stored reservation has that room, another id, an
\* active status and existing.arrival < departure and arrival <
\* existing.departure.
C10_AvailabilityIffConflict ==
  \A roomId \in RoomIds, a \in Days, d \in Days, excludeId \in ResIds \cup {NoId} :
     ~ensureRoomAvailable(reservations, roomId, a, d, excludeId)
     <=> \E id \in DOMAIN reservations :
            /\ reservations[id].roomId = roomId
            /\ id # excludeId
            /\ reservations[id].status \in {"DRAFT", "CONFIRMED", "CHECKED_IN"}
            /\ reservations[id].arrivalDate < d
            /\ a < reservations[id].departureDate

\* A room is free from an active reservation's departure day on, taken
\* during its stay, and an inactive reservation on it does not count.
C10_Witness ==
  \E i \in DOMAIN reservations, j \in DOMAIN reservations :
     /\ Active(reservations[i]) /\ reservations[i].roomId = "r1"
     /\ reservations[i].departureDate < MaxDay
     /\ ensureRoomAvailable(reservations, "r1", reservations[i].departureDate, MaxDay, NoId)
     /\ ~ensureRoomAvailable(reservations, "r1", reservations[i].arrivalDate,
                             reservations[i].departureDate, NoId)
     /\ ensureRoomAvailable(reservations, "r1", reservations[i].arrivalDate,
                            reservations[i].departureDate, i)
     /\ reservations[j].roomId = "r1"
     /\ reservations[j].status \in {"CANCELLED", "CHECKED_OUT"}

\* C5 (rollback on partial failure): when the room-status write of checkIn
\* or checkOut fails, the stored reservation afterwards equals, field for
\* field, the record as it was before the operation began.
C5_RollbackRestoresRecord ==
  \A id \in DOMAIN reservations :
     /\ \A roomInput \in RoomInputs :
          LET out == checkIn(reservations, rooms, clock, id, roomInput, TRUE)
          IN out.err = "RoomWriteFailed" => out.reservations[id] = reservations[id]
     /\ \A late \in BOOLEAN, extra \in ExtraChargeInputs :
          LET out == checkOut(reservations, rooms, clock, id, late, extra, TRUE)
          IN out.err = "RoomWriteFailed" => out.reservations[id] = reservations[id]

\* C6 (no way back from CHECKED_OUT): on a CHECKED_OUT reservation, checkIn
\* and every updateReservation asking for status CHECKED_IN fail with a
\* state error and leave the reservations and the rooms unchanged.
C6_CheckedOutCannotCheckIn ==
  \A id \in DOMAIN reservations :
     reservations[id].status = "CHECKED_OUT" =>
       /\ \A roomInput \in RoomInputs, fails \in BOOLEAN :
            LET out == checkIn(reservations, rooms, clock, id, roomInput, fails)
            IN /\ out.err = "InvalidState"
               /\ out.reservations = reservations
               /\ out.rooms = rooms
       /\ \A input \in AllUpdateInputs :
            input.status = "CHECKED_IN" =>
              LET out == updateReservation(reservations, rooms, clock, id, input)
              IN /\ out.err = "AlreadyCheckedOut"
                 /\ out.reservations = reservations
                 /\ out.rooms = rooms

\* A checked-out reservation (check-out has stamped it and left its room
\* dirty) on which check-in is refused.
C6_Witness ==
  \E id \in DOMAIN reservations :
     /\ reservations[id].status = "CHECKED_OUT"
     /\ reservations[id].checkOutAt # NoTime
     /\ reservations[id].roomId \in RoomIds
     /\ rooms[reservations[id].roomId].status = "DIRTY"
     /\ checkIn(reservations, rooms, clock, id, NoRoom, FALSE).err = "InvalidState"
     /\ updateReservation(reservations, rooms, clock, id,
                          [NoPatch EXCEPT !.status = "CHECKED_IN"]).err = "AlreadyCheckedOut"

DeleteRemoves(id) ==
  LET out == deleteReservation(reservations, rooms, id)
  IN out.err = "ok" /\ id \notin DOMAIN out.reservations

DeleteRefuses(id) ==
  LET out == deleteReservation(reservations, rooms, id)
  IN out.err = "InvalidState" /\ out.reservations = reservations /\ out.rooms = rooms

C8_CheckInContract ==
  \A id \in DOMAIN reservations, roomInput \in RoomInputs, fails \in BOOLEAN :
     LET r == reservations[id]
         room == IF roomInput # NoRoom THEN roomInput ELSE r.roomId
         out == checkIn(reservations, rooms, clock, id, roomInput, fails)
     IN /\ out.err = "ok" =>
             /\ r.status \in {"DRAFT", "CONFIRMED"}
             /\ room \in RoomIds
             /\ rooms[room].hotelCode = r.hotelCode
             /\ \A other \in DOMAIN reservations \ {id} :
                   (Active(reservations[other]) /\ reservations[other].roomId = room)
                   => \/ reservations[other].departureDate <= r.arrivalDate
                      \/ r.departureDate <= reservations[other].arrivalDate
             /\ out.reservations[id].status = "CHECKED_IN"
             /\ out.reservations[id].checkInAt # NoTime
             /\ out.reservations[id].roomId = room
             /\ out.rooms[room].status = "OCCUPIED"
        /\ out.err \notin {"ok", "RoomWriteFailed"} =>
             out.reservations = reservations /\ out.rooms = rooms

\* A checked-in reservation whose room check-in has marked occupied.
C8_Witness ==
  \E id \in DOMAIN reservations :
     /\ reservations[id].status = "CHECKED_IN"
     /\ reservations[id].checkInAt # NoTime
     /\ reservations[id].roomId \in RoomIds
     /\ rooms[reservations[id].roomId].status = "OCCUPIED"

\* C9 (check-out): checkOut succeeds only from CHECKED_IN with an assigned
\* room; on success the reservation is CHECKED_OUT with checkOutAt set and
\* the settlement snapshot as billing (balanceDue 0), and the room is DIRTY;
\* from any other status it fails with NotCheckedIn and changes nothing.
C9_CheckOutContract ==
  \A id \in DOMAIN reservations, late \in BOOLEAN, extra \in ExtraChargeInputs,
     fails \in BOOLEAN :
     LET r == reservations[id]
         out == checkOut(reservations, rooms, clock, id, late, extra, fails)
     IN /\ out.err = "ok" =>
             /\ r.status = "CHECKED_IN"
             /\ r.roomId \in RoomIds
             /\ out.reservations[id].status = "CHECKED_OUT"
             /\ out.reservations[id].checkOutAt # NoTime
             /\ out.reservations[id].billing = settleReservation(r, late, extra)
             /\ out.reservations[id].billing.balanceDue = 0
             /\ out.rooms[r.roomId].status = "DIRTY"
        /\ r.status # "CHECKED_IN" =>
             /\ out.err = "NotCheckedIn"
             /\ out.reservations = reservations
             /\ out.rooms = rooms

\* A checked-out reservation carrying a late fee, its room left dirty.
C9_Witness ==
  \E id \in DOMAIN reservations :
     /\ reservations[id].status = "CHECKED_OUT"
     /\ reservations[id].checkOutAt # NoTime
     /\ reservations[id].billing.balanceDue = 0
     /\ Len(reservations[id].billing.charges) > 1
     /\ reservations[id].roomId \in RoomIds
     /\ rooms[reservations[id].roomId].status = "DIRTY"

\* ------------------------------------------------------ ledger properties
RoomChargesOf(bill) == SelectSeq(bill.charges, LAMBDA c : c.type = "ROOM")

\* balanceDue of the reservation's billing snapshot is grandTotal minus
\* paymentsTotal, rounded to two decimals, in the stores of `out`.
Balanced(out, id) ==
  LET b == BillIndexOf(out.bills, id)
      grandTotal == IF b = 0 THEN 0 ELSE SumOf(out.bills[b].charges, "totalAmount")
      paymentsTotal == SumOf(SelectSeq(out.payments, LAMBDA p : p.reservationId = id), "amount")
      diff == grandTotal - paymentsTotal
  IN /\ diff % 10 = 0
     /\ out.reservations[id].billing.balanceDue = diff

\* C2 (ledger conservation): after every postRoomCharges, addAddonCharge and
\* settleBill call on a reservation, returned with a result or an error,
\* the balanceDue of its billing snapshot equals grandTotal - paymentsTotal
\* rounded to two decimals.
C2_LedgerConservation ==
  \A id \in DOMAIN reservations :
     /\ \A input \in PostInputs :
          Balanced(postRoomCharges(reservations, bills, payments, id, input), id)
     /\ \A input \in AddonInputs :
          Balanced(addAddonCharge(reservations, bills, payments, id, input), id)
     /\ \A list \in SettleInputs :
          Balanced(settleBill(reservations, bills, payments, id, list), id)

\* C3 (one ROOM charge per night): no bill holds two ROOM charges with the
\* same nightDate.
C3_OneRoomChargePerNight ==
  \A b \in 1..Len(bills) :
     \A i \in 1..Len(bills[b].charges), j \in 1..Len(bills[b].charges) :
        (/\ i # j
         /\ bills[b].charges[i].type = "ROOM"
         /\ bills[b].charges[j].type = "ROOM")
        => bills[b].charges[i].nightDate # bills[b].charges[j].nightDate

\* C4 (idempotent posting): a postRoomCharges call repeated with the same
\* reservation and the same nights right after a successful one adds
\* nothing: the bill's charges are those left by the first call and the
\* second call reports no added charge.
C4_PostRoomChargesIdempotent ==
  \A id \in DOMAIN reservations, input \in PostInputs :
     LET first == postRoomCharges(reservations, bills, payments, id, input)
         second == postRoomCharges(first.reservations, first.bills, first.payments, id, input)
         b == BillIndexOf(first.bills, id)
     IN first.err = "ok" =>
          /\ second.err = "ok"
          /\ second.added = <<>>
          /\ Len(second.bills[b].charges) = Len(first.bills[b].charges)
          /\ RoomChargesOf(second.bills[b]) = RoomChargesOf(first.bills[b])

\* The stay's nights have been posted, next to an addon charge, and posting
\* them again adds nothing.
C4_Witness ==
  \E id \in DOMAIN reservations :
     LET b == BillIndexOf(bills, id)
         again == postRoomCharges(reservations, bills, payments, id,
                                  [dates |-> <<>>, folioId |-> NoFolio,
                                   folioName |-> NoName, nightlyRate |-> NoRate])
     IN /\ b # 0
        /\ Len(RoomChargesOf(bills[b])) = 2
        /\ Len(bills[b].charges) = 3
        /\ again.err = "ok"
        /\ again.added = <<>>
        /\ again.bills = bills

\* ---------------------------------------------------------------- C11
\* Bookings without a room: every status variant, every non-empty stay.
ByTypeInputs == {input \in CreateInputs : input.roomId = NoRoom /\ input.arrivalDate < input.departureDate}

\* Rooms of the hotel and type.
RoomsOfType(hotelCode, roomType) ==
  {r \in DOMAIN rooms : rooms[r].hotelCode = hotelCode /\ rooms[r].type = roomType}

\* Rooms of the hotel and type no active stored reservation overlaps on [a, d).
FreeRoomsOfType(hotelCode, roomType, a, d) ==
  {r \in RoomsOfType(hotelCode, roomType) :
     \A id \in DOMAIN reservations :
        ~(/\ reservations[id].roomId = r
          /\ Active(reservations[id])
          /\ reservations[id].arrivalDate < d
          /\ a < reservations[id].departureDate)}

\* C11: createReservation without a roomId succeeds iff at least one room of
\* the type in the hotel has no conflict for the dates; it fails with
\* NoInventory when the hotel has no room of the type and with NoAvailability
\* when rooms of the type exist but each conflicts; a failure stores nothing.
C11_BookByType ==
  \A input \in ByTypeInputs :
     LET out == createReservation(reservations, rooms, nextId, clock, input)
         ofType == RoomsOfType(input.hotelCode, input.roomType)
         free == FreeRoomsOfType(input.hotelCode, input.roomType,
                                 input.arrivalDate, input.departureDate)
     IN /\ (out.err = "ok") <=> (free # {})
        /\ (ofType = {}) => out.err = "NoInventory"
        /\ (ofType # {} /\ free = {}) => out.err = "NoAvailability"
        /\ out.err # "ok" => out.reservations = reservations /\ out.rooms = rooms
        /\ out.err = "ok" =>
             /\ DOMAIN out.reservations = DOMAIN reservations \cup {nextId}
             /\ out.reservations[nextId].roomId = NoRoom
             /\ out.reservations[nextId].roomType = input.roomType

\* A booking by type is stored for dates on which one room of its type
\* conflicts and the other is free, and another such booking would be refused
\* for a type the hotel has no room of.
C11_Witness ==
  \E id \in DOMAIN reservations :
     LET r == reservations[id]
         ofType == RoomsOfType(r.hotelCode, r.roomType)
         free == FreeRoomsOfType(r.hotelCode, r.roomType, r.arrivalDate, r.departureDate)
     IN /\ r.roomId = NoRoom
        /\ r.status = "CONFIRMED"
        /\ free # {} /\ free # ofType
        /\ RoomsOfType(r.hotelCode, "STD") = {}

\* ---------------------------------------------------------------- C12
\* C12: getAvailability for a room type the hotel has no room of yields a
\* NoInventory error, not an empty list of rooms.
C12_AvailabilityNoInventory ==
  \A roomType \in RoomTypes, ad \in DateRangeInputs :
     RoomsOfType(HotelCode, roomType) = {} =>
        getAvailability(reservations, rooms, HotelCode, roomType, ad[1], ad[2]).err
           = "NoInventory"

\* ---------------------------------------------------------------- C13
\* C13: with a combined GST of 12%, booking room r1 at 7500 a night for the
\* three nights 1..4 gives totalAmount 22500, balanceDue 22500 and status
\* CONFIRMED; checkIn sets the room to OCCUPIED; postRoomCharges for the stay
\* creates three ROOM charges, each with tax 900 and total 8400, grandTotal
\* 25200; settleBill with one payment of 25200 gives balanceDue 0 in the
\* returned totals and in the reservation's billing snapshot.
C13_Scenario ==
  LET s1 == createReservation(reservations, rooms, nextId, clock, ScenarioInput)
      id == nextId
      s2 == checkIn(s1.reservations, s1.rooms, clock, id, NoRoom, FALSE)
      s3 == postRoomCharges(s2.reservations, bills, payments, id,
                            [dates |-> <<>>, folioId |-> NoFolio, folioName |-> NoName,
                             nightlyRate |-> NoRate])
      b == BillIndexOf(s3.bills, id)
      t3 == computeTotals(s3.bills[b], getPaymentsForReservation(s3.payments, id))
      s4 == settleBill(s3.reservations, s3.bills, s3.payments, id,
                       <<[amount |-> ScenarioGrandTotal, folioId |-> NoFolio,
                          folioName |-> NoName]>>)
      t4 == computeTotals(s4.bills[b], getPaymentsForReservation(s4.payments, id))
  IN (Cgst + Sgst = 12 /\ s1.err = "ok") =>
       /\ s1.reservations[id].billing.totalAmount = 22500 * 1000
       /\ s1.reservations[id].billing.balanceDue = 22500 * 1000
       /\ s1.reservations[id].status = "CONFIRMED"
       /\ s2.err = "ok"
       /\ s2.reservations[id].status = "CHECKED_IN"
       /\ s2.rooms["r1"].status = "OCCUPIED"
       /\ s3.err = "ok"
       /\ Len(s3.added) = 3
       /\ s3.bills[b].charges = s3.added
       /\ \A i \in 1..Len(s3.added) :
             /\ s3.added[i].type = "ROOM"
             /\ s3.added[i].nightDate = i
             /\ s3.added[i].taxAmount = 900 * 1000
             /\ s3.added[i].totalAmount = 8400 * 1000
       /\ t3.grandTotal = 25200 * 1000
       /\ s4.err = "ok"
       /\ t4.balanceDue = 0
       /\ s4.reservations[id].billing.balanceDue = 0
       /\ s4.reservations[id].billing.totalAmount = 25200 * 1000

\* The scenario has run to its end: the three-night booking of r1 is checked
\* in, the room is occupied, the bill holds its three ROOM charges and one
\* payment of 25200 is recorded against it.
C13_Witness ==
  \E id \in DOMAIN reservations :
     LET r == reservations[id]
         b == BillIndexOf(bills, id)
     IN /\ r.roomId = "r1" /\ r.arrivalDate = 1 /\ r.departureDate = 4
        /\ r.status = "CHECKED_IN"
        /\ rooms["r1"].status = "OCCUPIED"
        /\ b # 0
        /\ Len(RoomChargesOf(bills[b])) = 3
        /\ \E i \in 1..Len(payments) :
              payments[i].reservationId = id /\ payments[i].amount = ScenarioGrandTotal
        /\ r.billing.balanceDue = 0

\* ---------------------------------------------------------------- C14
\* C14: every reservation createReservation stores has initial status
\* CONFIRMED, or CHECKED_IN when it is created as a walk-in; none is stored
\* with initial status DRAFT, CHECKED_OUT or CANCELLED.
C14_InitialStatus ==
  \A input \in CreateInputs :
     LET out == createReservation(reservations, rooms, nextId, clock, input)
     IN out.err = "ok" =>
          out.reservations[nextId].status
             = (IF input.isWalkIn THEN "CHECKED_IN" ELSE "CONFIRMED")

\* ---------------------------------------------------------------- C15
\* C15: CANCELLED and CHECKED_OUT are terminal: once a reservation has one of
\* these statuses no updateReservation, assignRoom, checkIn or checkOut call
\* changes its status.
C15_TerminalStatuses ==
  [][\A id \in DOMAIN reservations \cap DOMAIN reservations' :
        reservations[id].status \in {"CANCELLED", "CHECKED_OUT"} =>
           reservations'[id].status = reservations[id].status]_vars

\* ---------------------------------------------------------------- C16
ValidationErrors == {"NightOutsideStay", "NotOvernightStay", "InvalidAmount", "EmptyPaymentList"}

\* The call failed validation and the three stores are as before it.
RejectedCleanly(out) ==
  out.err \in ValidationErrors =>
     /\ out.bills = bills
     /\ out.payments = payments
     /\ out.reservations = reservations

\* C16: a postRoomCharges, addAddonCharge or settleBill call that fails with a
\* validation error (night outside the stay, no overnight, non-positive addon
\* amount, empty payment list, non-positive payment at any position) leaves
\* the bills, payments and reservations stores exactly as they were.
C16_ValidationBeforeWrite ==
  \A id \in DOMAIN reservations :
     /\ \A input \in PostInputs :
           RejectedCleanly(postRoomCharges(reservations, bills, payments, id, input))
     /\ \A input \in AddonInputs :
           RejectedCleanly(addAddonCharge(reservations, bills, payments, id, input))
     /\ \A list \in SettleInputs :
           RejectedCleanly(settleBill(reservations, bills, payments, id, list))

\* ---------------------------------------------------------------- C17
\* C17: getBillSummary and generateInvoice are read-only: for every
\* reservation, one without a bill included, calling them leaves the bills,
\* payments and reservations stores unchanged.
C17_ReadOnlyProjections ==
  \A id \in DOMAIN reservations :
     LET summary == getBillSummary(reservations, bills, payments, id)
         invoice == generateInvoice(reservations, bills, payments, id)
     IN /\ summary.bills = bills /\ summary.payments = payments
        /\ summary.reservations = reservations
        /\ invoice.bills = bills /\ invoice.payments = payments
        /\ invoice.reservations = reservations

\* ---------------------------------------------------------------- C18
\* C18: in every reachable state in which a reservation that is not checked
\* out has a bill with at least one charge, its billing.totalAmount is the
\* bill's grandTotal and its billing.balanceDue is the ledger's balanceDue,
\* whatever ledger calls, updateReservation and assignRoom calls came before.
C18_SnapshotInSync ==
  \A id \in DOMAIN reservations :
     LET b == BillIndexOf(bills, id)
     IN (b # 0 /\ reservations[id].status # "CHECKED_OUT") =>
          (Len(bills[b].charges) > 0 =>
             LET totals == computeTotals(bills[b], getPaymentsForReservation(payments, id))
             IN /\ reservations[id].billing.totalAmount = totals.grandTotal
                /\ reservations[id].billing.balanceDue = totals.balanceDue)

\* ---------------------------------------------------------------- C19
\* The settlement of reservation id: charges are the existing billing
\* charges, then the late fee iff late checkout is requested, then the extra
\* charges; totalAmount is the sum of all returned amounts; balanceDue is 0.
\* FeeIs(fee, total) says what the late fee is.
SettlementShape(id, lateCheckout, extraCharges, FeeIs(_, _)) ==
  LET r == reservations[id]
      s == settleReservation(r, lateCheckout, extraCharges)
      n == Len(r.billing.charges)
      k == IF lateCheckout THEN 1 ELSE 0
  IN /\ Len(s.charges) = n + k + Len(extraCharges)
     /\ SubSeq(s.charges, 1, n) = r.billing.charges
     /\ lateCheckout => FeeIs(s.charges[n + 1].amount, r.billing.totalAmount)
     /\ SubSeq(s.charges, n + k + 1, Len(s.charges)) = extraCharges
     /\ s.totalAmount = SumAmount(r.billing.charges) + SumAmount(extraCharges)
                         + (IF lateCheckout THEN s.charges[n + 1].amount ELSE 0)
     /\ s.balanceDue = 0

\* The fee is exactly a quarter of the total.
ExactQuarter(fee, total) == 100 * fee = LateCheckoutPercent * total

\* The fee is a whole number of hundredths, the nearest to a quarter of the
\* total (a half rounds up).
RoundedQuarter(fee, total) ==
  /\ fee % 10 = 0
  /\ 100 * fee - LateCheckoutPercent * total <= 500
  /\ LateCheckoutPercent * total - 100 * fee < 500

\* C19 as stated: settleReservation returns the existing charges, a late fee
\* equal to 25% of the original billing.totalAmount iff lateCheckout, then
\* the extra charges; totalAmount is their sum; balanceDue is 0.
C19_SettlementExactFee ==
  \A id \in DOMAIN reservations, lateCheckout \in BOOLEAN, extraCharges \in ExtraChargeInputs :
     SettlementShape(id, lateCheckout, extraCharges, ExactQuarter)

\* C19, amended: as above, the late fee being 25% of the original
\* billing.totalAmount rounded to two decimals.
C19_SettlementRoundedFee ==
  \A id \in DOMAIN reservations, lateCheckout \in BOOLEAN, extraCharges \in ExtraChargeInputs :
     SettlementShape(id, lateCheckout, extraCharges, RoundedQuarter)

\* A late check-out with an extra charge has been settled for a stay whose
\* total has no exact quarter in hundredths: existing charge, fee, extra.
C19_Witness ==
  \E id \in DOMAIN reservations :
     LET r == reservations[id]
     IN /\ r.status = "CHECKED_OUT"
        /\ Len(r.billing.charges) = 3
        /\ r.billing.charges[2].description = <<"late", 0, 0>>
        /\ ~ExactQuarter(r.billing.charges[2].amount, r.billing.charges[1].amount)
        /\ r.billing.balanceDue = 0

\* ---------------------------------------------------------------- C20
\* Two different reservations with overlapping stays whose checkIn calls
\* have both returned successfully for the same room.
BothCheckedIn(id1, id2) ==
  /\ id1 # id2
  /\ calls[id1].pc = "done" /\ calls[id2].pc = "done"
  /\ calls[id1].roomId = calls[id2].roomId
  /\ reservations[id1].arrivalDate < reservations[id2].departureDate
  /\ reservations[id2].arrivalDate < reservations[id1].departureDate

\* C20: two concurrent checkIn calls for different reservations with
\* overlapping dates and the same room can both succeed: a call that has
\* passed the availability check writes CHECKED_IN and its room whatever was
\* written since the check, and when both calls have returned the two
\* reservations are active on the same room with overlapping intervals.
C20_ConcurrentCheckInsDoubleBook ==
  /\ \A id \in ResIds :
        calls[id].pc = "checked" =>
           LET written == checkInWrite(reservations, rooms, clock, id, calls[id].roomId)
           IN /\ written[id].status = "CHECKED_IN"
              /\ written[id].roomId = calls[id].roomId
  /\ \A id1 \in ResIds, id2 \in ResIds :
        BothCheckedIn(id1, id2) =>
           /\ Active(reservations[id1]) /\ Active(reservations[id2])
           /\ reservations[id1].roomId = reservations[id2].roomId
           /\ reservations[id1].roomId \in RoomIds

\* Both calls have succeeded and the room is double-booked.
C20_Witness ==
  \E id1 \in ResIds, id2 \in ResIds :
     /\ BothCheckedIn(id1, id2)
     /\ reservations[id1].status = "CHECKED_IN" /\ reservations[id2].status = "CHECKED_IN"
     /\ reservations[id1].roomId = "r1" /\ reservations[id2].roomId = "r1"

\* ---------------------------------------------------------------- C21
\* C21: every change of a room's status made by updateRoom, checkIn or
\* checkOut is a transition of the table AVAILABLE to OCCUPIED, DIRTY or
\* OUT_OF_ORDER, OCCUPIED to DIRTY, DIRTY to AVAILABLE or OUT_OF_ORDER,
\* OUT_OF_ORDER to AVAILABLE or DIRTY; an operation that would make another
\* transition leaves the status unchanged.
C21_RoomStatusTransitions ==
  [][\A r \in RoomIds :
        rooms'[r].status # rooms[r].status =>
           rooms'[r].status \in ROOM_STATUS_TRANSITIONS[rooms[r].status]]_vars

\* ---------------------------------------------------------------- C22
\* Patches that set the status to CHECKED_IN or CHECKED_OUT.
StatusMoveInputs == {input \in AllUpdateInputs : input.status \in {"CHECKED_IN", "CHECKED_OUT"}}

\* C22: an updateReservation that sets status CHECKED_IN (CHECKED_OUT) stamps
\* checkInAt (checkOutAt) with the time of the call only if that timestamp is
\* not already set, leaves the other timestamp alone, and changes no room:
\* every room has the same status after the call as before.  The call is
\* made at an instant later than every stamp in the store.
C22_UpdateStampsOnce ==
  \A id \in DOMAIN reservations, input \in StatusMoveInputs :
     LET later == clock + 1
         before == reservations[id]
         out == updateReservation(reservations, rooms, later, id, input)
         after == out.reservations[id]
     IN /\ out.rooms = rooms
        /\ out.err # "ok" => out.reservations = reservations
        /\ out.err = "ok" =>
             /\ after.status = input.status
             /\ after.checkInAt =
                  (IF input.status = "CHECKED_IN" /\ before.checkInAt = NoTime
                   THEN later ELSE before.checkInAt)
             /\ after.checkOutAt =
                  (IF input.status = "CHECKED_OUT" /\ before.checkOutAt = NoTime
                   THEN later ELSE before.checkOutAt)

\* A reservation stamped at check-in, in a room that is occupied, which a
\* later update moves to CHECKED_IN again and to CHECKED_OUT: the first keeps
\* the stamp, the second stamps checkOutAt, neither touches the room.
C22_Witness ==
  \E id \in DOMAIN reservations :
     LET again == updateReservation(reservations, rooms, clock + 1, id,
                                    [NoPatch EXCEPT !.status = "CHECKED_IN"])
         out == updateReservation(reservations, rooms, clock + 1, id,
                                  [NoPatch EXCEPT !.status = "CHECKED_OUT"])
     IN /\ reservations[id].checkInAt # NoTime
        /\ reservations[id].checkOutAt = NoTime
        /\ reservations[id].roomId \in RoomIds
        /\ rooms[reservations[id].roomId].status = "OCCUPIED"
        /\ again.err = "ok" /\ out.err = "ok"
        /\ again.reservations[id].checkInAt = reservations[id].checkInAt
        /\ out.reservations[id].checkOutAt = clock + 1
        /\ out.rooms[reservations[id].roomId].status = "OCCUPIED"

\* ---------------------------------------------------------------- C23
\* C23: there is at most one bill per reservation in every reachable state,
\* also when two billing calls for a reservation without a bill run
\* concurrently and both reach the lazy bill creation.
C23_OneBillPerReservation ==
  \A i \in 1..Len(bills), j \in 1..Len(bills) :
     bills[i].reservationId = bills[j].reservationId => i = j

\* ---------------------------------------------------------------- C24
\* C24: assignRoom changes a reservation's roomId and roomType only when its
\* status is DRAFT or CONFIRMED; a reservation that is CHECKED_IN,
\* CHECKED_OUT or CANCELLED is left unchanged.
C24_AssignRoomPreCheckIn ==
  \A id \in DOMAIN reservations, roomId \in RoomIds \cup {UnknownRoom} :
     reservations[id].status \notin {"DRAFT", "CONFIRMED"} =>
        assignRoom(reservations, rooms, id, roomId).reservations = reservations

\* ---------------------------------------------------------------- C25
\* C25: after any sequence of createReservation, assignRoom, checkIn and
\* checkOut calls each room has at most one CHECKED_IN reservation assigned
\* to it, and a room that is DIRTY has none.
C25_OneGuestPerRoom ==
  \A id1 \in DOMAIN reservations :
     (reservations[id1].status = "CHECKED_IN" /\ reservations[id1].roomId \in RoomIds) =>
        /\ \A id2 \in DOMAIN reservations :
              (reservations[id2].status = "CHECKED_IN"
               /\ reservations[id2].roomId = reservations[id1].roomId) => id1 = id2
        /\ rooms[reservations[id1].roomId].status # "DIRTY"

\* ---------------------------------------------------------------- C26
\* C26: after any sequence of createReservation (walk-ins included),
\* updateReservation, assignRoom, checkIn and checkOut calls, every
\* reservation with status CHECKED_IN has a roomId, that room is OCCUPIED,
\* and checkOut does not fail on it with NoRoomAssigned.
C26_CheckedInHasOccupiedRoom ==
  \A id \in DOMAIN reservations :
     reservations[id].status = "CHECKED_IN" =>
        /\ reservations[id].roomId \in RoomIds
        /\ rooms[reservations[id].roomId].status = "OCCUPIED"
        /\ checkOut(reservations, rooms, clock, id, FALSE, <<>>, FALSE).err # "NoRoomAssigned"

\* ---------------------------------------------------------------- C27
\* Active reservations of the hotel and type whose stay covers the night.
StayingOn(roomType, night) ==
  {id \in DOMAIN reservations :
     /\ Active(reservations[id])
     /\ reservations[id].hotelCode = HotelCode
     /\ reservations[id].roomType = roomType
     /\ reservations[id].arrivalDate <= night
     /\ night < reservations[id].departureDate}

\* C27: under any sequence of createReservation calls, with or without a
\* roomId, the active reservations of a room type whose stay covers a night
\* are never more than the hotel's rooms of that type.
C27_TypeInventoryNotExceeded ==
  \A roomType \in RoomTypes, night \in Days :
     Cardinality(StayingOn(roomType, night)) <= Cardinality(RoomsOfType(HotelCode, roomType))

\* ---------------------------------------------------------------- C28
\* Two calls for the same reservation, one of them an addAddonCharge, that
\* have both returned after adding charges.
BothCharged(c1, c2) ==
  /\ c1 # c2
  /\ pending[c1].pc = "done" /\ pending[c2].pc = "done"
  /\ pending[c1].id = pending[c2].id
  /\ pending[c1].op = "addon" /\ pending[c2].op \in {"addon", "post"}
  /\ pending[c1].added # <<>> /\ pending[c2].added # <<>>

\* C28: when an addAddonCharge call and a postRoomCharges call, or two
\* addAddonCharge calls, for one reservation run concurrently and both
\* succeed, the bill afterwards holds the charges added by both and the
\* reservation's billing snapshot shows all of them.
C28_NoChargeLost ==
  \A c1 \in CallIds, c2 \in CallIds :
     BothCharged(c1, c2) =>
        LET id == pending[c1].id
            bill == bills[pending[c1].b]
            n == Len(pending[c1].added) + Len(pending[c2].added)
        IN /\ pending[c2].b = pending[c1].b
           /\ Len(bill.charges) >= n
           /\ \A i \in 1..Len(pending[c1].added) :
                 \E k \in 1..Len(bill.charges) : bill.charges[k] = pending[c1].added[i]
           /\ \A i \in 1..Len(pending[c2].added) :
                 \E k \in 1..Len(bill.charges) : bill.charges[k] = pending[c2].added[i]
           /\ Len(reservations[id].billing.charges) >= n
           /\ reservations[id].billing.totalAmount
                 = computeTotals(bill, getPaymentsForReservation(payments, id)).grandTotal

\* ---------------------------------------------------------------- C29
\* The step of a checkIn call whose room write threw: its compensating
\* write to the reservation.
RolledBack(id) == calls[id].pc = "written" /\ calls'[id].pc = "idle"

\* C29: the compensating write of checkIn undoes only checkIn's own write.
\* A reservation that a checkOut moved to CHECKED_OUT while the checkIn was
\* awaiting its room write is still CHECKED_OUT, with the settled billing,
\* after the rollback.
C29_RollbackKeepsOtherWrites ==
  [][\A id \in ResIds :
       (RolledBack(id) /\ reservations[id].status = "CHECKED_OUT")
         => /\ reservations'[id].status = "CHECKED_OUT"
            /\ reservations'[id].billing = reservations[id].billing
            /\ reservations'[id].checkOutAt = reservations[id].checkOutAt]_vars

\* ---------------------------------------------------------------- C30
\* The lines of a billing snapshot that checkOut added: the late fee and
\* the extra charges.
CheckOutLines(billing) ==
  {k \in 1..Len(billing.charges) :
     billing.charges[k].description \in {<<"late", 0, 0>>, <<"extra", 0, 0>>}}

RECURSIVE SumLines(_, _)
SumLines(billing, ks) ==
  IF ks = {} THEN 0
  ELSE LET k == CHOOSE x \in ks : TRUE
       IN billing.charges[k].amount + SumLines(billing, ks \ {k})

\* C30: once checkOut has put a late fee or extra charges on a reservation,
\* every later step (a postRoomCharges, addAddonCharge or settleBill call on
\* it included) leaves those lines in reservation.billing.charges and their
\* amounts within reservation.billing.totalAmount.
C30_CheckOutChargesPersist ==
  [][\A id \in DOMAIN reservations :
       LET before == reservations[id].billing
           after == reservations'[id].billing
       IN (reservations[id].status = "CHECKED_OUT" /\ CheckOutLines(before) # {})
            => /\ \A k \in CheckOutLines(before) :
                    \E j \in CheckOutLines(after) : after.charges[j] = before.charges[k]
               /\ after.totalAmount >= SumLines(before, CheckOutLines(before))]_vars
====
